---- MODULE Spec2Model ----
(***************************************************************************)
(* Verification model of the night-drive game core (tree-game):            *)
(*   - Car.update            vehicle kinematics        (lib/game/car.ts)   *)
(*   - checkCollisions       collision pass    (lib/game/environment.ts)   *)
(*   - updateObjectVisibility headlight pass   (lib/game/environment.ts)   *)
(*   - GameEngine            frame scheduler    (lib/game/GameEngine.ts)   *)
(*                                                                         *)
(* Numbers are fixed point.  Time is counted in units of 1/120 s, so that  *)
(* deltaFactor = delta * 60 is a whole number of halves.  Speed is counted *)
(* in units of 0.01, steering in units of 0.0001, multiplicative factors   *)
(* in units of 0.0001.  Products are rounded to nearest, as IEEE does.     *)
(***************************************************************************)
EXTENDS Integers, Sequences, FiniteSets, TLC

VARIABLES
    speed,         \* Car.speed, in units of 0.01
    steering,      \* Car.steering, in units of 0.0001
    sceneBoxes,    \* the active obstacle list: a sequence of obstacle ids
    worldPos,      \* obstacle id -> world position <<x, y, z>>
    treeContainer, \* the obstacles attached to the scene graph
    opacity,       \* obstacle id -> material opacity, in units of 0.01
    visible,       \* obstacle id -> Object3D.visible
    lightsOn,      \* Car.lightsOn
    heading,       \* the car's forward direction, an integer vector
    keyState,      \* GameEngine.keyState: the set of key codes held
    animationId,   \* GameEngine.animationId, 0 for undefined
    pendingFrames, \* the requestAnimationFrame handles not yet run or cancelled
    renderCalls,   \* how often render() ran; the n-th request returns handle n
    disposed,      \* GameEngine.disposed
    hitCount,      \* GameEngine.hitCount
    onHitArgs,     \* the argument of each options.onHit call, in call order
    loadState,     \* populatePalmTrees: "loading", "loaded" or "failed"
    released,      \* GPU resource -> number of dispose() calls it received
    listeners,     \* the event listeners currently registered
    running,       \* the caller's last word: start() (TRUE) or stop()/dispose()
    recent,        \* the stop()/dispose() calls made in a row, the last three
    cancelled,     \* the handle the last call gave cancelAnimationFrame, or 0
    phase,         \* "input" / "done" for the single-pass specifications
    colBefore,     \* the obstacle list as it was handed to checkCollisions
    opacityBefore, \* the opacities as they were handed to updateObjectVisibility
    colHits,       \* the obstacle behind each onHit call, in call order
    objectKind,    \* obstacle id -> "tree" or "box", for every obstacle created
    carDelta,      \* single update: the delta Car.update is called with, in 1/120 s
    deltaFactor,   \* single update: the deltaFactor it computed, in halves
    rotated,       \* single update: whether it turned the planet group
    speedBefore,   \* single update: the speed it started from
    steeringBefore, \* single update: the steering it started from
    updates,       \* replay: the number of Car.update calls made
    tickLog,       \* single tick: the subsystems that have run, in order
    drawn,         \* single tick: the obstacle list renderer.render drew
    dust,          \* the DustParticleSystem's arrays, cursor and accumulator
    dustSince,     \* slot -> the deltas applied since its last spawn, summed exactly
    dustBorn,      \* slot -> the lifetime drawn at its last spawn, 0 if never used
    dustDelta,     \* the delta of the last direct DustParticleSystem.update call
    dustUpdates,   \* the number of direct update calls made
    timeRemaining, \* Game: timeRemaining
    gameOver,      \* Game: gameOver
    finalScore,    \* Game: finalScore
    hitCounterRef, \* Game: hitCounterRef.current
    savedScores,   \* the score of each saveScore call, in call order
    timerActive    \* the countdown interval is set

carVars   == <<speed, steering>>
worldVars == <<sceneBoxes, worldPos, treeContainer, opacity, visible>>
lightVars == <<lightsOn, heading>>
passVars  == <<phase, colBefore, opacityBefore, colHits>>
engineVars == <<keyState, animationId, pendingFrames, renderCalls, disposed,
                hitCount, onHitArgs, loadState, released, listeners>>
callVars  == <<running, recent, cancelled>>
updateVars == <<carDelta, deltaFactor, rotated, speedBefore, steeringBefore,
                updates, tickLog, drawn>>
dustVars  == <<dust, dustSince, dustBorn, dustDelta, dustUpdates>>
pageVars  == <<timeRemaining, gameOver, finalScore, hitCounterRef, savedScores,
               timerActive>>
vars == <<speed, steering, sceneBoxes, worldPos, treeContainer, opacity,
          visible, lightsOn, heading, keyState, animationId, pendingFrames,
          renderCalls, disposed, hitCount, onHitArgs, loadState, released,
          listeners, running, recent, cancelled, phase, colBefore, opacityBefore,
          colHits, objectKind, carDelta, deltaFactor, rotated, speedBefore,
          steeringBefore, updates, tickLog, drawn, dust,
          dustSince, dustBorn, dustDelta, dustUpdates, timeRemaining, gameOver,
          finalScore, hitCounterRef, savedScores, timerActive>>

-----------------------------------------------------------------------------
(* Fixed-point arithmetic                                                  *)

SpeedScale == 10 * 10
SteerScale == 100 * 100
FactorOne  == 100 * 100

Abs(x) == IF x < 0 THEN -x ELSE x
Min(a, b) == IF a < b THEN a ELSE b
Max(a, b) == IF a > b THEN a ELSE b

\* n / d rounded to the nearest integer (d > 0), the way a floating-point
\* product is rounded to the nearest representable value.
RoundDiv(n, d) ==
    LET q == (2 * Abs(n) + d) \div (2 * d)
    IN  IF n < 0 THEN -q ELSE q

RECURSIVE SqrtIter(_, _)
SqrtIter(n, x) ==
    LET y == (x + n \div x) \div 2
    IN  IF y >= x THEN x ELSE SqrtIter(n, y)

\* a power of two at or above the square root (n < 2^31), at most twice it,
\* to start the iteration from
SqrtGuess(n) ==
    IF n <= 65536
    THEN IF n <= 256
         THEN IF n <= 16 THEN (IF n <= 4 THEN 2 ELSE 4)
                         ELSE (IF n <= 64 THEN 8 ELSE 16)
         ELSE IF n <= 4096 THEN (IF n <= 1024 THEN 32 ELSE 64)
                           ELSE (IF n <= 16384 THEN 128 ELSE 256)
    ELSE IF n <= 16777216
         THEN IF n <= 1048576 THEN (IF n <= 262144 THEN 512 ELSE 1024)
                              ELSE (IF n <= 4194304 THEN 2048 ELSE 4096)
         ELSE IF n <= 268435456 THEN (IF n <= 67108864 THEN 8192 ELSE 16384)
                                ELSE (IF n <= 1073741824 THEN 32768 ELSE 46341)

\* floor of the square root
ISqrt(n) == IF n = 0 THEN 0 ELSE SqrtIter(n, SqrtGuess(n))

RECURSIVE PowWhole(_, _)
PowWhole(base, n) ==
    IF n = 0 THEN FactorOne ELSE RoundDiv(PowWhole(base, n - 1) * base, FactorOne)

\* Math.pow(base, deltaFactor): base is a factor in units of 0.0001 and
\* halves the exponent counted in halves.
Pow(base, halves) ==
    LET whole == PowWhole(base, halves \div 2)
    IN  IF halves % 2 = 1
        THEN RoundDiv(whole * ISqrt(base * FactorOne), FactorOne)
        ELSE whole

-----------------------------------------------------------------------------
(* Car.update                                                              *)

\* key codes read by Car.update: arrows and WASD
KeyLeft  == 37
KeyUp    == 38
KeyRight == 39
KeyDown  == 40
KeyA     == 65
KeyD     == 68
KeyS     == 83
KeyW     == 87
KeyCodes == {KeyLeft, KeyUp, KeyRight, KeyDown, KeyA, KeyD, KeyS, KeyW}

\* keyState[code] is truthy: the table is modelled as the set of held codes
Held(ks, code) == code \in ks

maxSpeed    == 3 * SpeedScale
maxSteering == SteerScale \div 100
CapDeltaFactor == 5
UnitDeltaFactor == 2
ClockCap == 12

\* const deltaFactor = delta > 0 ? Math.min(delta * 60, 2.5) : 1   (in halves)
DeltaFactor(delta) ==
    IF delta > 0 THEN Min(delta, CapDeltaFactor) ELSE UnitDeltaFactor

\* const steerPower = 0.0008 * deltaFactor
SteerPower(df) == (8 * SteerScale * df) \div (2 * 100 * 100)

\* an acceleration of 0.02 * deltaFactor
AccelerationHalved(df) == (2 * SpeedScale * df) \div (2 * 100)

\* 0.04 * deltaFactor
Acceleration(df) == (4 * SpeedScale * df) \div (2 * 100)

SteerDecay == (92 * FactorOne) \div 100
SpeedDecay == (96 * FactorOne) \div 100

\* Math.pow(0.92, deltaFactor) and Math.pow(0.96, deltaFactor), tabulated
SteerDecayPow == [df \in 1 .. CapDeltaFactor |-> Pow(SteerDecay, df)]
SpeedDecayPow == [df \in 1 .. CapDeltaFactor |-> Pow(SpeedDecay, df)]

\* steering without the Math.min / Math.max against maxSteering
SteeringStepUnclamped(st, ks, df) ==
    IF Held(ks, KeyRight) \/ Held(ks, KeyD)
    THEN st + SteerPower(df)
    ELSE IF Held(ks, KeyLeft) \/ Held(ks, KeyA)
    THEN st - SteerPower(df)
    ELSE RoundDiv(st * SteerDecayPow[df], FactorOne)

\* steering whose two key tests are independent, so that both apply when
\* both keys are held
SteeringStepBothKeys(st, ks, df) ==
    LET right == Held(ks, KeyRight) \/ Held(ks, KeyD)
        left == Held(ks, KeyLeft) \/ Held(ks, KeyA)
        r == IF right THEN Min(st + SteerPower(df), maxSteering) ELSE st
        l == IF left THEN Max(r - SteerPower(df), -maxSteering) ELSE r
    IN  IF right \/ left THEN l ELSE RoundDiv(st * SteerDecayPow[df], FactorOne)

SteeringStep(st, ks, df) ==
    IF Held(ks, KeyRight) \/ Held(ks, KeyD)
    THEN Min(st + SteerPower(df), maxSteering)
    ELSE IF Held(ks, KeyLeft) \/ Held(ks, KeyA)
    THEN Max(st - SteerPower(df), -maxSteering)
    ELSE RoundDiv(st * SteerDecayPow[df], FactorOne)

\* a coasting branch that subtracts a drag instead of scaling the speed
SpeedStepDrag(sp, ks, df) ==
    IF Held(ks, KeyUp) \/ Held(ks, KeyW)
    THEN sp + (IF sp < maxSpeed THEN Acceleration(df) ELSE 0)
    ELSE IF Held(ks, KeyDown) \/ Held(ks, KeyS)
    THEN sp - (IF 2 * sp > -maxSpeed THEN Acceleration(df) ELSE 0)
    ELSE sp - Acceleration(df)

SpeedStep(sp, ks, df) ==
    IF Held(ks, KeyUp) \/ Held(ks, KeyW)
    THEN sp + (IF sp < maxSpeed THEN Acceleration(df) ELSE 0)
    ELSE IF Held(ks, KeyDown) \/ Held(ks, KeyS)
    THEN sp - (IF 2 * sp > -maxSpeed THEN Acceleration(df) ELSE 0)
    ELSE RoundDiv(sp * SpeedDecayPow[df], FactorOne)

\* this.speed *= 1 - Math.abs(this.steering / 2)
SteeringDamp(sp, st) == RoundDiv(sp * (2 * SteerScale - Abs(st)), 2 * SteerScale)

\* the steering and speed the car has after update(delta)
CarSteering(st, ks, delta) == SteeringStep(st, ks, DeltaFactor(delta))
CarSpeed(sp, st, ks, delta) ==
    SteeringDamp(SpeedStep(sp, ks, DeltaFactor(delta)), CarSteering(st, ks, delta))

\* key tables and deltas the kinematics are exercised with; the deltas, in
\* 1/120 s, lie in (0, 0.1] and give the delta factors 0.5, 1, 1.5 and 2.5
KeyTables ==
    { {}, {KeyRight}, {KeyLeft}, {KeyUp}, {KeyDown},
      {KeyLeft, KeyRight}, {KeyUp, KeyDown},
      {KeyRight, KeyUp}, {KeyLeft, KeyDown}, {KeyD, KeyS}, {KeyA, KeyW} }
CarDeltas == {1, 2, 3, ClockCap}

-----------------------------------------------------------------------------
(* World geometry.  Positions are whole world units.                       *)

PLANET_RADIUS      == 1000
CAR_SURFACE_OFFSET == 12
COLLISION_THRESHOLD == 28

\* Car constructor: this.position.set(0, 0, PLANET_RADIUS + CAR_SURFACE_OFFSET);
\* the car is a child of the scene, so this is its world position too.
CarPosition == <<0, 0, PLANET_RADIUS + CAR_SURFACE_OFFSET>>

Origin == <<0, 0, 0>>

Sub(p, q) == <<p[1] - q[1], p[2] - q[2], p[3] - q[3]>>
LengthSq(v) == v[1] * v[1] + v[2] * v[2] + v[3] * v[3]

\* Vector3.distanceTo: Math.sqrt(distanceToSquared), here rounded down to
\* whole units (which preserves every comparison with a whole number)
DistanceTo(p, q) == ISqrt(LengthSq(Sub(p, q)))

\* Array.prototype.splice(i, 1) on a 1-based sequence
Splice(seq, i) == SubSeq(seq, 1, i - 1) \o SubSeq(seq, i + 1, Len(seq))

-----------------------------------------------------------------------------
(* checkCollisions                                                         *)

\* for (let i = sceneBoxes.length - 1; i >= 0; i--) { ... }
\* i is 1-based here; hits lists the obstacle of each onHit() call.
RECURSIVE CollisionLoop(_, _, _, _, _, _)
CollisionLoop(carPos, pos, i, boxes, container, hits) ==
    IF i < 1
    THEN [boxes |-> boxes, container |-> container, hits |-> hits]
    ELSE IF DistanceTo(pos[boxes[i]], carPos) < COLLISION_THRESHOLD
         THEN CollisionLoop(carPos, pos, i - 1, Splice(boxes, i),
                            container \ {boxes[i]}, Append(hits, boxes[i]))
         ELSE CollisionLoop(carPos, pos, i - 1, boxes, container, hits)

\* a forward scan that splices while it walks skips the element that slides
\* into the freed index
RECURSIVE ForwardLoop(_, _, _, _, _, _)
ForwardLoop(carPos, pos, i, boxes, container, hits) ==
    IF i > Len(boxes)
    THEN [boxes |-> boxes, container |-> container, hits |-> hits]
    ELSE IF DistanceTo(pos[boxes[i]], carPos) < COLLISION_THRESHOLD
         THEN ForwardLoop(carPos, pos, i + 1, Splice(boxes, i),
                          container \ {boxes[i]}, Append(hits, boxes[i]))
         ELSE ForwardLoop(carPos, pos, i + 1, boxes, container, hits)

CheckCollisionsForward(carPos, pos, boxes, container) ==
    ForwardLoop(carPos, pos, 1, boxes, container, <<>>)

\* a pass that reports each hit but leaves the obstacle in the list
CheckCollisionsKeepListed(carPos, pos, boxes, container) ==
    LET r == CollisionLoop(carPos, pos, Len(boxes), boxes, container, <<>>)
    IN  [boxes |-> boxes, container |-> r.container, hits |-> r.hits]

CheckCollisions(carPos, pos, boxes, container) ==
    CollisionLoop(carPos, pos, Len(boxes), boxes, container, <<>>)

-----------------------------------------------------------------------------
(* updateObjectVisibility                                                  *)

HEADLIGHT_RANGE == 1000
CarLightCount   == 2

\* Math.cos(HEADLIGHT_ANGLE) with HEADLIGHT_ANGLE = Math.PI / 3.5, as a factor
LightAngleCos == 6235

Dot(p, q) == p[1] * q[1] + p[2] * q[2] + p[3] * q[3]

\* Vector3.length(), in tenths of a world unit
Length10(v) == ISqrt(100 * LengthSq(v))

\* Math.pow(x, 0.7) for x = 0.00, 0.01, ... 1.30, in units of 0.01
Pow07Table ==
    <<   0,   4,   6,   9,  11,  12,  14,  16,  17,  19,  20,  21,
        23,  24,  25,  27,  28,  29,  30,  31,  32,  34,  35,  36,
        37,  38,  39,  40,  41,  42,  43,  44,  45,  46,  47,  48,
        49,  50,  51,  52,  53,  54,  54,  55,  56,  57,  58,  59,
        60,  61,  62,  62,  63,  64,  65,  66,  67,  67,  68,  69,
        70,  71,  72,  72,  73,  74,  75,  76,  76,  77,  78,  79,
        79,  80,  81,  82,  83,  83,  84,  85,  86,  86,  87,  88,
        89,  89,  90,  91,  91,  92,  93,  94,  94,  95,  96,  96,
        97,  98,  99,  99, 100, 101, 101, 102, 103, 103, 104, 105,
       106, 106, 107, 108, 108, 109, 110, 110, 111, 112, 112, 113,
       114, 114, 115, 116, 116, 117, 118, 118, 119, 120, 120 >>

Pow07(x) == Pow07Table[x + 1]

\* scratchToObject.normalize().dot(carForward), as a factor; distance10 is
\* the length of toObject in tenths, and forward an integer vector of whole
\* length, standing for the unit vector along it
DirectionDot(toObject, distance10, forward) ==
    RoundDiv(Dot(toObject, forward) * 10 * FactorOne,
             distance10 * ISqrt(LengthSq(forward)))

\* a cone branch whose distance factor is 1 - distance / range
ConeIntensityLinear(distance10, directionDot) ==
    LET distanceFactor == FactorOne - distance10
        angleFactor == RoundDiv((directionDot - LightAngleCos) * FactorOne,
                                FactorOne - LightAngleCos)
    IN  Pow07(Max(0, RoundDiv(distanceFactor * angleFactor, 100 * FactorOne)))

\* the cone branch: Math.pow(Math.max(0, distanceFactor * angleFactor), 0.7),
\* in units of 0.01
ConeIntensity(distance10, directionDot) ==
    LET distanceFactor == 13 * (FactorOne \div 10) - distance10
        angleFactor == RoundDiv((directionDot - LightAngleCos) * FactorOne,
                                FactorOne - LightAngleCos)
    IN  Pow07(Max(0, RoundDiv(distanceFactor * angleFactor, 100 * FactorOne)))

\* the intensity without the final Math.min(1, intensity)
IntensityUnclamped(on, carPos, forward, objectPos) ==
    LET toObject == Sub(objectPos, carPos)
    IN  IF on /\ LengthSq(toObject) > 0
              /\ LengthSq(toObject) <= HEADLIGHT_RANGE * HEADLIGHT_RANGE
        THEN LET distance10 == Length10(toObject)
                 directionDot == DirectionDot(toObject, distance10, forward)
             IN  IF directionDot > LightAngleCos
                 THEN ConeIntensity(distance10, directionDot)
                 ELSE 0
        ELSE 0

\* the intensity one obstacle gets, after Math.min(1, intensity).  The two
\* distance tests are made on the squared length, which decides them exactly.
Intensity(on, carPos, forward, objectPos) ==
    LET toObject == Sub(objectPos, carPos)
        raw == IF on /\ LengthSq(toObject) > 0
                     /\ LengthSq(toObject) <= HEADLIGHT_RANGE * HEADLIGHT_RANGE
               THEN LET distance10 == Length10(toObject)
                        directionDot == DirectionDot(toObject, distance10, forward)
                    IN  IF directionDot > LightAngleCos
                        THEN ConeIntensity(distance10, directionDot)
                        ELSE 0
               ELSE 0
    IN  Min(100, raw)

\* object.visible = intensity > 0.02
VisibleAt(intensity) == intensity > 2

\* sceneBoxes.forEach: every listed obstacle gets its intensity as opacity,
\* and is visible when that exceeds 0.02
VisibilityPassBody(on, carPos, forward, boxes, pos, op, vis) ==
    LET listed == {boxes[i] : i \in DOMAIN boxes}
        lit == [b \in DOMAIN op |->
                   IF b \in listed THEN Intensity(on, carPos, forward, pos[b]) ELSE op[b]]
    IN  [opacity |-> lit,
         visible |-> [b \in DOMAIN vis |->
                         IF b \in listed THEN VisibleAt(lit[b]) ELSE vis[b]]]

\* a pass that skips its work while the headlights are off
VisibilityPassSkipDark(lights, on, carPos, forward, boxes, pos, op, vis) ==
    IF lights = 0 \/ ~on
    THEN [opacity |-> op, visible |-> vis]
    ELSE VisibilityPassBody(on, carPos, forward, boxes, pos, op, vis)

\* the whole pass: the opacity and visible flag of every listed obstacle;
\* a car without lights leaves everything as it is
VisibilityPass(lights, on, carPos, forward, boxes, pos, op, vis) ==
    IF lights = 0
    THEN [opacity |-> op, visible |-> vis]
    ELSE VisibilityPassBody(on, carPos, forward, boxes, pos, op, vis)

-----------------------------------------------------------------------------
(* DustParticleSystem.  Time is counted in units of 2^-28 s here, so that  *)
(* what a Float32Array element keeps of an age can be computed: 24         *)
(* significant bits.  The emission accumulator is counted in 1/1024,       *)
(* positions, velocities and sizes in 0.01 (the component along worldUp    *)
(* only), alphas in 0.01.                                                  *)

DustSecond == 16384 * 16384
DustMilli  == 512 * 512
AccOne     == 32 * 32

\* capacity of the ring buffer (maxParticles)
DustCapacity == 2
Slots == 0 .. DustCapacity - 1

\* the spacing of float32 values around n
Ulp(n) ==
    IF n < 16777216 THEN 1
    ELSE IF n < 33554432 THEN 2
    ELSE IF n < 67108864 THEN 4
    ELSE IF n < 134217728 THEN 8
    ELSE IF n < 268435456 THEN 16
    ELSE IF n < 536870912 THEN 32
    ELSE 64

\* storing n >= 0 into a Float32Array element: round to nearest, ties to even
Fround(n) ==
    LET ulp == Ulp(n)
        q == n \div ulp
        r == n % ulp
    IN  IF 2 * r < ulp THEN q * ulp
        ELSE IF 2 * r > ulp THEN (q + 1) * ulp
        ELSE (IF q % 2 = 0 THEN q ELSE q + 1) * ulp

\* a delta in 1/1024 s, for the products that need no more
Delta1024(delta) == delta \div DustMilli

\* THREE.MathUtils.clamp
Clamp(x, lo, hi) == Max(lo, Min(hi, x))

\* the constructor: every array zero-filled, cursor and accumulator 0
NewDustSystem ==
    [positions |-> [i \in Slots |-> 0], velocities |-> [i \in Slots |-> 0],
     sizes |-> [i \in Slots |-> 0], startSizes |-> [i \in Slots |-> 0],
     endSizes |-> [i \in Slots |-> 0], ages |-> [i \in Slots |-> 0],
     lifetimes |-> [i \in Slots |-> 0], startAlphas |-> [i \in Slots |-> 0],
     alphas |-> [i \in Slots |-> 0], nextIndex |-> 0, emitAccumulator |-> 0]

\* the random draws of one activateParticle: the lifetime, from [0.7, 1.5);
\* the others are fixed at one value of their range
DustLifetimes == {3 * (DustSecond \div 4), DustSecond}
SpawnVelocity == 16 * 100
SpawnSize     == 16 * 100
SpawnEndSize  == SpawnSize \div 2
SpawnAlpha    == 7 * 10

\* activateParticle, with the drawn lifetime
ActivateParticle(d, lifetime) ==
    LET index == d.nextIndex
    IN  [d EXCEPT !.nextIndex = (d.nextIndex + 1) % DustCapacity,
                  !.positions[index] = 0,
                  !.velocities[index] = SpawnVelocity,
                  !.ages[index] = 0,
                  !.lifetimes[index] = lifetime,
                  !.startSizes[index] = SpawnSize,
                  !.endSizes[index] = SpawnEndSize,
                  !.sizes[index] = SpawnSize,
                  !.startAlphas[index] = SpawnAlpha,
                  !.alphas[index] = SpawnAlpha]

\* for (let i = 0; i < emitCount; i++) this.activateParticle(...)
RECURSIVE EmitLoop(_, _)
EmitLoop(d, draws) ==
    IF draws = <<>> THEN d
    ELSE EmitLoop(ActivateParticle(d, Head(draws)), Tail(draws))

\* an accumulator that also grows at a speed of exactly 0.2
AccumulateAtThreshold(acc, delta, sp) ==
    IF Abs(sp) >= 20
    THEN acc + RoundDiv(Clamp(Abs(sp) * 40, 1200, 7000) * Delta1024(delta), 100)
    ELSE RoundDiv(acc * 6, 10)

\* the accumulator after this frame's increase or decay
Accumulate(acc, delta, sp) ==
    IF Abs(sp) > 20
    THEN acc + RoundDiv(Clamp(Abs(sp) * 40, 1200, 7000) * Delta1024(delta), 100)
    ELSE RoundDiv(acc * 6, 10)

\* Math.min(this.maxParticles, Math.floor(this.emitAccumulator))
EmitCountOf(maxParticles, acc) == Min(maxParticles, acc \div AccOne)
EmitCount(acc) == EmitCountOf(DustCapacity, acc)

\* the loop over the slots: an inactive slot is skipped; an active one ages,
\* and either expires or is integrated
AgeParticles(d, delta) ==
    LET age(i) == Fround(d.ages[i] + delta)
        live(i) == d.lifetimes[i] > 0
        expired(i) == age(i) >= d.lifetimes[i]
        t(i) == Clamp(RoundDiv(100 * Delta1024(age(i)), Delta1024(d.lifetimes[i])),
                      0, 100)
    IN  [d EXCEPT
          !.ages = [i \in Slots |-> IF live(i) THEN age(i) ELSE @[i]],
          !.lifetimes = [i \in Slots |-> IF live(i) /\ expired(i) THEN 0 ELSE @[i]],
          !.alphas = [i \in Slots |->
              IF ~live(i) THEN @[i]
              ELSE IF expired(i) THEN 0
              ELSE RoundDiv(d.startAlphas[i] * (100 - t(i)) * (100 - t(i)), 100 * 100)],
          !.startAlphas = [i \in Slots |-> IF live(i) /\ expired(i) THEN 0 ELSE @[i]],
          !.positions = [i \in Slots |->
              IF live(i) /\ ~expired(i)
              THEN @[i] + RoundDiv(d.velocities[i] * Delta1024(delta), 1024)
              ELSE @[i]],
          !.velocities = [i \in Slots |->
              IF live(i) /\ ~expired(i)
              THEN RoundDiv(@[i] * 88, 100) + RoundDiv(20 * 100 * Delta1024(delta), 1024)
              ELSE @[i]],
          !.sizes = [i \in Slots |->
              IF live(i) /\ ~expired(i)
              THEN d.startSizes[i]
                   + RoundDiv((d.endSizes[i] - d.startSizes[i]) * t(i), 100)
              ELSE @[i]]]

\* update() after its guard: accumulate, emit, age
DustUpdateBody(d, delta, sp, draws) ==
    LET acc == Accumulate(d.emitAccumulator, delta, sp)
        emitCount == EmitCount(acc)
        emitted == EmitLoop([d EXCEPT !.emitAccumulator = acc - emitCount * AccOne],
                            draws)
    IN  AgeParticles(emitted, delta)

\* an update whose guard lets a zero delta through
DustUpdateZeroPasses(d, delta, sp, draws) ==
    IF delta < 0 THEN d ELSE DustUpdateBody(d, delta, sp, draws)

\* update(delta, emitterPosition, backward, up, speed); draws holds the
\* lifetime drawn for each particle this call spawns
DustUpdate(d, delta, sp, draws) ==
    IF delta <= 0 THEN d ELSE DustUpdateBody(d, delta, sp, draws)

\* how many particles update() spawns, and the slots they take
SpawnCount(d, delta, sp) ==
    IF delta <= 0 THEN 0 ELSE EmitCount(Accumulate(d.emitAccumulator, delta, sp))

SpawnedSlots(d, delta, sp) ==
    {(d.nextIndex + k) % DustCapacity : k \in 0 .. SpawnCount(d, delta, sp) - 1}

-----------------------------------------------------------------------------
(* GameEngine                                                              *)

\* what the constructor creates on the GPU: the dust system's geometry and
\* material, createSkyDome's texture, geometry and material,
\* createPlanetSurface's bump texture, geometry and material, the renderer
DustResources   == {"dustGeometry", "dustMaterial"}
SkyResources    == {"skyGeometry", "skyMaterial", "skyTexture"}
PlanetResources == {"planetGeometry", "planetMaterial", "planetTexture"}
Resources == DustResources \cup SkyResources \cup PlanetResources \cup {"renderer"}

\* initializeRenderer and initializeEventHandlers
Listeners == {"resize", "visualViewportResize", "keydown", "keyup"}

\* a registerHit that reports the count before adding to it
RegisterHitStale(count, args) ==
    [hitCount |-> count + 1, onHitArgs |-> Append(args, count)]

\* registerHit: this.hitCount += 1; this.options.onHit(this.hitCount)
RegisterHit(count, args) ==
    [hitCount |-> count + 1, onHitArgs |-> Append(args, count + 1)]

\* a pass that makes one callback more than it found collisions
RECURSIVE RegisterHitsOneMore(_, _, _)
RegisterHitsOneMore(n, count, args) ==
    IF n < 0
    THEN [hitCount |-> count, onHitArgs |-> args]
    ELSE LET r == RegisterHit(count, args)
         IN  RegisterHitsOneMore(n - 1, r.hitCount, r.onHitArgs)

\* the n onHit() callbacks of one collision pass, one after the other
RECURSIVE RegisterHits(_, _, _)
RegisterHits(n, count, args) ==
    IF n = 0
    THEN [hitCount |-> count, onHitArgs |-> args]
    ELSE LET r == RegisterHit(count, args)
         IN  RegisterHits(n - 1, r.hitCount, r.onHitArgs)

\* a stop() that cancels the frame and keeps the handle
StopEffectKeepsId(id, pending) ==
    IF id # 0
    THEN [animationId |-> id, pendingFrames |-> pending \ {id}, cancelled |-> id]
    ELSE [animationId |-> id, pendingFrames |-> pending, cancelled |-> 0]

\* stop()
StopEffect(id, pending) ==
    IF id # 0
    THEN [animationId |-> 0, pendingFrames |-> pending \ {id}, cancelled |-> id]
    ELSE [animationId |-> id, pendingFrames |-> pending, cancelled |-> 0]

\* removeEventHandlers
RemoveEventHandlers(ls) == ls \ Listeners

\* the dispose() calls made by GameEngine.dispose: dustSystem.dispose()
\* (geometry and material), skyGeometry, skyMaterial, renderer
ReleasedByDispose == DustResources \cup {"skyGeometry", "skyMaterial", "renderer"}

ReleaseAll(rel) ==
    [r \in Resources |-> IF r \in ReleasedByDispose THEN rel[r] + 1 ELSE rel[r]]

\* a dispose() without its "if (this.disposed) return"
DisposeEffectUnguarded(isDisposed, id, pending, ls, rel) ==
    LET s == StopEffect(id, pending)
    IN  [disposed |-> TRUE, animationId |-> s.animationId,
         pendingFrames |-> s.pendingFrames,
         listeners |-> RemoveEventHandlers(ls),
         released |-> ReleaseAll(rel), cancelled |-> s.cancelled]

\* dispose(), as a function of the fields it reads
DisposeEffect(isDisposed, id, pending, ls, rel) ==
    IF isDisposed
    THEN [disposed |-> isDisposed, animationId |-> id, pendingFrames |-> pending,
          listeners |-> ls, released |-> rel, cancelled |-> 0]
    ELSE LET s == StopEffect(id, pending)
         IN  [disposed |-> TRUE, animationId |-> s.animationId,
              pendingFrames |-> s.pendingFrames,
              listeners |-> RemoveEventHandlers(ls),
              released |-> ReleaseAll(rel), cancelled |-> s.cancelled]

\* const delta = Math.min(this.clock.getDelta(), 0.1)
ClockDelta(elapsed) == Min(elapsed, ClockCap)

\* Math.abs(rotationAmount) > 1e-5 with
\* rotationAmount = (this.speed / PLANET_RADIUS) * deltaFactor
PlanetRotates(sp, df) ==
    Abs(sp * df) * 100000 > 2 * SpeedScale * PLANET_RADIUS

\* this.angle += this.steering * this.speed * deltaFactor changes the angle
HeadingTurns(sp, st) == sp * st # 0

Restrict(f, S) == [x \in S |-> f[x]]
ListedSet(boxes) == {boxes[i] : i \in DOMAIN boxes}

-----------------------------------------------------------------------------
(* Specification SpecCar: the kinematics alone, from rest.                 *)

IdleWorld ==
    /\ sceneBoxes = <<>>
    /\ worldPos = <<>>
    /\ treeContainer = {}
    /\ opacity = <<>>
    /\ visible = <<>>
    /\ objectKind = <<>>

\* no Car.update has run
IdleUpdate ==
    /\ carDelta = 0
    /\ deltaFactor = 0
    /\ rotated = FALSE
    /\ speedBefore = 0
    /\ steeringBefore = 0
    /\ updates = 0
    /\ tickLog = <<>>
    /\ drawn = <<>>

\* a DustParticleSystem straight after construction
NewDust ==
    /\ dust = NewDustSystem
    /\ dustSince = [i \in Slots |-> 0]
    /\ dustBorn = [i \in Slots |-> 0]
    /\ dustDelta = 0
    /\ dustUpdates = 0

\* the Game page before it mounts
IdlePage ==
    /\ timeRemaining = 0
    /\ gameOver = FALSE
    /\ finalScore = 0
    /\ hitCounterRef = 0
    /\ savedScores = <<>>
    /\ timerActive = FALSE

\* Car: lightsOn = true, angle = 0, so forward is (1, 0, 0)
IdleLights ==
    /\ lightsOn = TRUE
    /\ heading = <<1, 0, 0>>

\* a GameEngine straight after construction
NewEngine ==
    /\ keyState = {}
    /\ animationId = 0
    /\ pendingFrames = {}
    /\ renderCalls = 0
    /\ disposed = FALSE
    /\ hitCount = 0
    /\ onHitArgs = <<>>
    /\ loadState = "loading"
    /\ released = [r \in Resources |-> 0]
    /\ listeners = Listeners
    /\ running = FALSE
    /\ recent = <<>>
    /\ cancelled = 0

IdlePass ==
    /\ phase = "input"
    /\ colBefore = <<>>
    /\ opacityBefore = <<>>
    /\ colHits = <<>>

CarInit ==
    /\ speed = 0
    /\ steering = 0
    /\ IdleWorld
    /\ IdleLights
    /\ NewEngine
    /\ IdleUpdate
    /\ NewDust
    /\ IdlePage
    /\ IdlePass

CarUpdate ==
    /\ \E ks \in KeyTables, delta \in CarDeltas :
        /\ steering' = CarSteering(steering, ks, delta)
        /\ speed' = CarSpeed(speed, steering, ks, delta)
    /\ UNCHANGED <<worldVars, lightVars, engineVars, callVars, passVars, objectKind,
                   updateVars, dustVars, pageVars>>

CarNext == CarUpdate

SpecCar == CarInit /\ [][CarNext]_vars

-----------------------------------------------------------------------------
(* Specification SpecAccel: from rest, the accelerate key goes down and    *)
(* stays down, alone, through updates of any of the deltas.                *)

PressAccelerate ==
    /\ keyState = {}
    /\ keyState' = {KeyUp}
    /\ UNCHANGED <<carVars, worldVars, lightVars, animationId, pendingFrames,
                   renderCalls, disposed, hitCount, onHitArgs, loadState, released,
                   listeners, callVars, passVars, objectKind, updateVars, dustVars,
                   pageVars>>

AccelUpdate ==
    /\ keyState = {KeyUp}
    /\ \E delta \in CarDeltas :
        /\ steering' = CarSteering(steering, keyState, delta)
        /\ speed' = CarSpeed(speed, steering, keyState, delta)
    /\ UNCHANGED <<worldVars, lightVars, engineVars, callVars, passVars, objectKind,
                   updateVars, dustVars, pageVars>>

AccelNext == PressAccelerate \/ AccelUpdate

SpecAccel == CarInit /\ [][AccelNext]_vars

-----------------------------------------------------------------------------
(* Specification Spec: the engine a host drives through start(), stop(),   *)
(* dispose() and setKeyState(), the browser through animation frames, and  *)
(* the model loader through its completion.                                *)

MaxRenders    == 3
TreeCount     == 2
FallbackCount == 1

\* time since the previous getDelta(), in 1/120 s: none (the same timer
\* reading), or one 60 Hz frame
Elapsed == {0, 2}

\* the key the host presses
EngineKeyCodes == {KeyUp}

\* where the turning planet can carry an obstacle: under the car, or ahead of
\* it on the surface
Places == { <<10, 0, 1000>>, <<500, 0, 866>> }

\* directions the car can face
EngineHeadings == { <<1, 0, 0>>, <<-1, 0, 0>> }

Push(log, call) ==
    LET l == Append(log, call)
    IN  IF Len(l) > 3 THEN Tail(l) ELSE l

Init ==
    /\ speed = 0
    /\ steering = 0
    /\ IdleWorld
    /\ IdleLights
    /\ NewEngine
    /\ IdlePass
    /\ IdleUpdate
    /\ NewDust
    /\ IdlePage

\* a delta of the engine's clock, in the dust system's unit
DustDelta(delta) == (delta * (DustSecond \div 8)) \div 15

\* one update(dd, ..., sp) call on the dust system, with the bookkeeping of
\* what each slot was given at its spawn and has been aged by since
DustCall(dd, sp) ==
    LET spawned == SpawnedSlots(dust, dd, sp)
    IN  /\ \E draws \in [1 .. SpawnCount(dust, dd, sp) -> DustLifetimes] :
            /\ dust' = DustUpdate(dust, dd, sp, draws)
            /\ dustBorn' = [i \in Slots |->
                    IF i \in spawned
                    THEN draws[((i - dust.nextIndex) % DustCapacity) + 1]
                    ELSE dustBorn[i]]
        /\ dustSince' = [i \in Slots |->
                IF dd <= 0 THEN dustSince[i]
                ELSE IF i \in spawned THEN dd
                ELSE IF dust.lifetimes[i] > 0 THEN dustSince[i] + dd
                ELSE dustSince[i]]

\* car.update's this.dustEmitter.update(delta, ..., this.speed)
EngineDust(delta, sp) ==
    /\ DustCall(DustDelta(delta), sp)
    /\ UNCHANGED <<dustDelta, dustUpdates>>

\* render: one tick.  fired is the handle whose callback is running (0 when
\* start() calls render directly).
Render(fired) ==
    /\ renderCalls' = renderCalls + 1
    /\ animationId' = renderCalls + 1
    /\ pendingFrames' = (pendingFrames \ {fired}) \cup {renderCalls + 1}
    /\ \E elapsed \in Elapsed :
        LET delta == ClockDelta(elapsed)
            st == CarSteering(steering, keyState, delta)
            sp == CarSpeed(speed, steering, keyState, delta)
        IN  /\ steering' = st
            /\ speed' = sp
            /\ \E h \in (IF HeadingTurns(sp, st) THEN EngineHeadings ELSE {heading}),
                  pos \in (IF PlanetRotates(sp, DeltaFactor(delta))
                           THEN [DOMAIN worldPos -> Places] ELSE {worldPos}) :
                LET v == VisibilityPass(CarLightCount, lightsOn, CarPosition, h,
                                        sceneBoxes, pos, opacity, visible)
                    c == CheckCollisions(CarPosition, pos, sceneBoxes, treeContainer)
                    r == RegisterHits(Len(c.hits), hitCount, onHitArgs)
                    left == ListedSet(c.boxes)
                IN  /\ heading' = h
                    /\ sceneBoxes' = c.boxes
                    /\ treeContainer' = c.container
                    /\ worldPos' = Restrict(pos, left)
                    /\ opacity' = Restrict(v.opacity, left)
                    /\ visible' = Restrict(v.visible, left)
                    /\ hitCount' = r.hitCount
                    /\ onHitArgs' = r.onHitArgs
            /\ EngineDust(delta, sp)
    /\ UNCHANGED <<lightsOn, keyState, disposed, loadState, released, listeners,
                   objectKind, updateVars>>

\* start(): if (this.disposed) return; this.clock.start(); this.render()
Start ==
    /\ renderCalls < MaxRenders
    /\ IF disposed
       THEN UNCHANGED <<carVars, worldVars, lightVars, engineVars, running,
                        objectKind, updateVars, dustVars>>
       ELSE Render(0) /\ running' = TRUE
    /\ recent' = <<>>
    /\ cancelled' = 0
    /\ UNCHANGED <<passVars, pageVars>>

Stop ==
    /\ LET s == StopEffect(animationId, pendingFrames)
       IN  /\ animationId' = s.animationId
           /\ pendingFrames' = s.pendingFrames
           /\ cancelled' = s.cancelled
    /\ running' = FALSE
    /\ recent' = Push(recent, "stop")
    /\ UNCHANGED <<carVars, worldVars, lightVars, keyState, renderCalls, disposed,
                   hitCount, onHitArgs, loadState, released, listeners, passVars,
                   objectKind, updateVars, dustVars, pageVars>>

Dispose ==
    /\ LET d == DisposeEffect(disposed, animationId, pendingFrames, listeners, released)
       IN  /\ disposed' = d.disposed
           /\ animationId' = d.animationId
           /\ pendingFrames' = d.pendingFrames
           /\ listeners' = d.listeners
           /\ released' = d.released
           /\ cancelled' = d.cancelled
    /\ running' = FALSE
    /\ recent' = Push(recent, "dispose")
    /\ UNCHANGED <<carVars, worldVars, lightVars, keyState, renderCalls, hitCount,
                   onHitArgs, loadState, passVars, objectKind, updateVars, dustVars,
                   pageVars>>

\* the browser runs a pending animation-frame callback
Frame ==
    /\ renderCalls < MaxRenders
    /\ \E id \in pendingFrames : Render(id)
    /\ recent' = <<>>
    /\ cancelled' = 0
    /\ UNCHANGED <<running, passVars, pageVars>>

\* setKeyState(keyCode, isPressed), from the key listeners or the host
SetKeyState ==
    /\ \E code \in EngineKeyCodes, isPressed \in BOOLEAN :
        keyState' = IF isPressed THEN keyState \cup {code} ELSE keyState \ {code}
    /\ recent' = <<>>
    /\ cancelled' = 0
    /\ UNCHANGED <<carVars, worldVars, lightVars, animationId, pendingFrames,
                   renderCalls, disposed, hitCount, onHitArgs, loadState, released,
                   listeners, running, passVars, objectKind, updateVars, dustVars,
                   pageVars>>

\* a loader whose failure branch creates nothing
PopulateNoFallback(count, state) ==
    LET n == IF state = "failed" THEN 0 ELSE count
    IN  /\ loadState = "loading"
        /\ loadState' = state
        /\ sceneBoxes' = [i \in 1 .. n |-> i]
        /\ treeContainer' = 1 .. n
        /\ worldPos' \in [1 .. n -> Places]
        /\ opacity' = [i \in 1 .. n |-> 0]
        /\ visible' = [i \in 1 .. n |-> FALSE]
        /\ objectKind' = [i \in 1 .. n |-> "tree"]
        /\ recent' = <<>>
        /\ cancelled' = 0
        /\ UNCHANGED <<carVars, lightVars, keyState, animationId, pendingFrames,
                       renderCalls, disposed, hitCount, onHitArgs, released, listeners,
                       running, passVars, updateVars, dustVars, pageVars>>

\* a loader that creates count obstacles and lists all but the first
PopulateUnlisted(count, state) ==
    /\ loadState = "loading"
    /\ loadState' = state
    /\ sceneBoxes' = [i \in 1 .. count - 1 |-> i + 1]
    /\ treeContainer' = 1 .. count
    /\ worldPos' \in [2 .. count -> Places]
    /\ opacity' = [i \in 2 .. count |-> 0]
    /\ visible' = [i \in 2 .. count |-> FALSE]
    /\ objectKind' = [i \in 1 .. count |-> IF state = "loaded" THEN "tree" ELSE "box"]
    /\ recent' = <<>>
    /\ cancelled' = 0
    /\ UNCHANGED <<carVars, lightVars, keyState, animationId, pendingFrames,
                   renderCalls, disposed, hitCount, onHitArgs, released, listeners,
                   running, passVars, updateVars, dustVars, pageVars>>

\* populatePalmTrees after the await: count obstacles, dark and hidden, at
\* random points of the planet
Populate(count, state) ==
    /\ loadState = "loading"
    /\ loadState' = state
    /\ sceneBoxes' = [i \in 1 .. count |-> i]
    /\ treeContainer' = 1 .. count
    /\ worldPos' \in [1 .. count -> Places]
    /\ opacity' = [i \in 1 .. count |-> 0]
    /\ visible' = [i \in 1 .. count |-> FALSE]
    /\ objectKind' = [i \in 1 .. count |-> IF state = "loaded" THEN "tree" ELSE "box"]
    /\ recent' = <<>>
    /\ cancelled' = 0
    /\ UNCHANGED <<carVars, lightVars, keyState, animationId, pendingFrames,
                   renderCalls, disposed, hitCount, onHitArgs, released, listeners,
                   running, passVars, updateVars, dustVars, pageVars>>

LoadResolved == Populate(TreeCount, "loaded")
LoadFailed   == Populate(FallbackCount, "failed")

Next ==
    \/ Start
    \/ Stop
    \/ Dispose
    \/ Frame
    \/ SetKeyState
    \/ LoadResolved
    \/ LoadFailed

Spec == Init /\ [][Next]_vars

-----------------------------------------------------------------------------
(* Specification SpecCollide: one checkCollisions pass over every list of  *)
(* up to MaxBoxes obstacles placed on the test points.                     *)

MaxBoxes == 3

\* distances from the car: 27, 28, sqrt(768) = 27.7, sqrt(800) = 28.3, far
TestPoints ==
    { <<27, 0, 1012>>, <<28, 0, 1012>>, <<16, 16, 1028>>,
      <<20, 20, 1012>>, <<500, 0, 866>> }

CollideInit ==
    /\ speed = 0
    /\ steering = 0
    /\ \E n \in 0 .. MaxBoxes :
        /\ sceneBoxes = [i \in 1 .. n |-> i]
        /\ worldPos \in [1 .. n -> TestPoints]
        /\ treeContainer = 1 .. n
        /\ opacity = [i \in 1 .. n |-> 0]
        /\ visible = [i \in 1 .. n |-> FALSE]
        /\ colBefore = [i \in 1 .. n |-> i]
        /\ objectKind = [i \in 1 .. n |-> "box"]
    /\ IdleLights
    /\ NewEngine
    /\ IdleUpdate
    /\ NewDust
    /\ IdlePage
    /\ phase = "input"
    /\ opacityBefore = <<>>
    /\ colHits = <<>>

CollidePass ==
    /\ phase = "input"
    /\ LET r == CheckCollisions(CarPosition, worldPos, sceneBoxes, treeContainer)
       IN  /\ sceneBoxes' = r.boxes
           /\ treeContainer' = r.container
           /\ colHits' = r.hits
    /\ phase' = "done"
    /\ UNCHANGED <<carVars, lightVars, engineVars, callVars, worldPos, opacity,
                   visible, colBefore, opacityBefore, objectKind, updateVars,
                   dustVars, pageVars>>

CollideNext == CollidePass

SpecCollide == CollideInit /\ [][CollideNext]_vars
-----------------------------------------------------------------------------
(* Specification SpecVis: one updateObjectVisibility pass over up to       *)
(* MaxVisBoxes obstacles, for each heading, lights on and off, and each    *)
(* opacity an earlier pass may have left.                                  *)

MaxVisBoxes == 2

Headings == { <<1, 0, 0>>, <<0, -1, 0>>, <<3, -4, 0>> }

\* offsets from the car: on each heading's axis at several distances, at the
\* car itself, inside the cone off the axis, outside the cone, behind, and
\* beyond the range
VisOffsets ==
    { <<1, 0, 0>>, <<500, 0, 0>>, <<999, 0, 0>>, <<1000, 0, 0>>, <<1001, 0, 0>>,
      <<0, -500, 0>>, <<300, -400, 0>>, <<3, -4, 0>>,
      <<0, 0, 0>>, <<400, 300, 0>>, <<300, 400, 0>>, <<-500, 0, 0>> }

VisPoints == { <<CarPosition[1] + o[1], CarPosition[2] + o[2], CarPosition[3] + o[3]>> :
               o \in VisOffsets }

\* what a pass can have left on an obstacle: dark, or lit
EarlierOpacity == {0, 100}

VisInit ==
    /\ speed = 0
    /\ steering = 0
    /\ lightsOn \in BOOLEAN
    /\ heading \in Headings
    /\ \E n \in 1 .. MaxVisBoxes :
        /\ sceneBoxes = [i \in 1 .. n |-> i]
        /\ worldPos \in [1 .. n -> VisPoints]
        /\ treeContainer = 1 .. n
        /\ opacity \in [1 .. n -> EarlierOpacity]
        /\ visible = [i \in 1 .. n |-> VisibleAt(opacity[i])]
        /\ objectKind = [i \in 1 .. n |-> "box"]
    /\ NewEngine
    /\ IdleUpdate
    /\ NewDust
    /\ IdlePage
    /\ phase = "input"
    /\ colBefore = <<>>
    /\ opacityBefore = opacity
    /\ colHits = <<>>

VisPass ==
    /\ phase = "input"
    /\ LET r == VisibilityPass(CarLightCount, lightsOn, CarPosition, heading,
                               sceneBoxes, worldPos, opacity, visible)
       IN  /\ opacity' = r.opacity
           /\ visible' = r.visible
    /\ phase' = "done"
    /\ UNCHANGED <<carVars, lightVars, engineVars, callVars, sceneBoxes, worldPos,
                   treeContainer, colBefore, opacityBefore, colHits, objectKind,
                   updateVars, dustVars, pageVars>>

VisNext == VisPass

SpecVis == VisInit /\ [][VisNext]_vars
-----------------------------------------------------------------------------
(* Specification SpecDust: a DustParticleSystem driven by direct update    *)
(* calls, with deltas below, at and above zero, at rest and at speed.      *)

MaxDustUpdates == 3

\* deltas, in 2^-28 s: -1/16 s, 0, 1/16 s, and three that sum to one second
\* and are not float32 values themselves
DustDeltas ==
    { -(DustSecond \div 16), 0, DustSecond \div 16,
      DustSecond \div 4 + 3, DustSecond \div 4 + 7, DustSecond \div 2 - 10 }

\* speeds, in 0.01: at rest, and above the 0.2 threshold in reverse
DustSpeeds == {0, -50}

DustInit ==
    /\ speed = 0
    /\ steering = 0
    /\ IdleWorld
    /\ IdleLights
    /\ NewEngine
    /\ IdlePass
    /\ IdleUpdate
    /\ NewDust
    /\ IdlePage

DustUpdateCall ==
    /\ dustUpdates < MaxDustUpdates
    /\ \E dd \in DustDeltas, sp \in DustSpeeds :
        /\ DustCall(dd, sp)
        /\ dustDelta' = dd
    /\ dustUpdates' = dustUpdates + 1
    /\ UNCHANGED <<carVars, worldVars, lightVars, engineVars, callVars, passVars,
                   objectKind, updateVars, pageVars>>

DustNext == DustUpdateCall

SpecDust == DustInit /\ [][DustNext]_vars

-----------------------------------------------------------------------------
(* Specification SpecGame: the game page with a player who is logged in.   *)
(* Its effects create and start the engine and set the one-second          *)
(* countdown; the engine reports hits through handleHit; the countdown     *)
(* ends the game.  The player touches no key, so hits come from obstacles  *)
(* the loader puts under the car.                                          *)

GAME_DURATION_SECONDS == 120

\* an endGame that leaves the engine running
EndGameKeepsRunning(over, score, ref, id, pending, saved) ==
    IF over
    THEN [gameOver |-> over, finalScore |-> score, animationId |-> id,
          pendingFrames |-> pending, cancelled |-> 0, savedScores |-> saved,
          stopped |-> FALSE]
    ELSE [gameOver |-> TRUE, finalScore |-> ref, animationId |-> id,
          pendingFrames |-> pending, cancelled |-> 0,
          savedScores |-> Append(saved, ref), stopped |-> FALSE]

\* endGame, for a player who is logged in: if (gameOver) return; score =
\* hitCounterRef.current; setFinalScore(score); setGameOver(true);
\* engine.stop(); saveScore(username, score)
EndGame(over, score, ref, id, pending, saved) ==
    IF over
    THEN [gameOver |-> over, finalScore |-> score, animationId |-> id,
          pendingFrames |-> pending, cancelled |-> 0, savedScores |-> saved,
          stopped |-> FALSE]
    ELSE LET s == StopEffect(id, pending)
         IN  [gameOver |-> TRUE, finalScore |-> ref,
              animationId |-> s.animationId, pendingFrames |-> s.pendingFrames,
              cancelled |-> s.cancelled, savedScores |-> Append(saved, ref),
              stopped |-> TRUE]

\* handleHit, called once per hit of the tick with the running count
HandleHit(ref, before, after) == IF after > before THEN after ELSE ref

\* the page as first rendered for a logged-in player, its effects not yet run
GameInit ==
    /\ speed = 0
    /\ steering = 0
    /\ IdleWorld
    /\ IdleLights
    /\ NewEngine
    /\ IdlePass
    /\ IdleUpdate
    /\ NewDust
    /\ timeRemaining = GAME_DURATION_SECONDS
    /\ gameOver = FALSE
    /\ finalScore = 0
    /\ hitCounterRef = 0
    /\ savedScores = <<>>
    /\ timerActive = FALSE

\* the effects of the first commit: useGameEngine starts the engine it
\* created, and the countdown effect sets its interval
GameMount ==
    /\ ~gameOver /\ ~timerActive /\ ~running /\ ~disposed
    /\ Render(0)
    /\ running' = TRUE
    /\ hitCounterRef' = HandleHit(hitCounterRef, hitCount, hitCount')
    /\ timerActive' = TRUE
    /\ recent' = <<>>
    /\ cancelled' = 0
    /\ UNCHANGED <<passVars, timeRemaining, gameOver, finalScore, savedScores>>

\* an animation frame of the engine, its hits reported to the page
GameFrame ==
    /\ renderCalls < MaxRenders
    /\ \E id \in pendingFrames : Render(id)
    /\ hitCounterRef' = HandleHit(hitCounterRef, hitCount, hitCount')
    /\ recent' = <<>>
    /\ cancelled' = 0
    /\ UNCHANGED <<running, passVars, timeRemaining, gameOver, finalScore,
                   savedScores, timerActive>>

\* the interval's callback: setTimeRemaining(prev => ...)
TimerTick ==
    /\ timerActive
    /\ IF timeRemaining <= 1
       THEN LET e == EndGame(gameOver, finalScore, hitCounterRef, animationId,
                             pendingFrames, savedScores)
            IN  /\ timerActive' = FALSE
                /\ timeRemaining' = 0
                /\ gameOver' = e.gameOver
                /\ finalScore' = e.finalScore
                /\ savedScores' = e.savedScores
                /\ animationId' = e.animationId
                /\ pendingFrames' = e.pendingFrames
                /\ cancelled' = e.cancelled
                /\ running' = (running /\ ~e.stopped)
                /\ recent' = IF e.stopped THEN Push(recent, "stop") ELSE recent
       ELSE /\ timeRemaining' = timeRemaining - 1
            /\ UNCHANGED <<timerActive, gameOver, finalScore, savedScores,
                           animationId, pendingFrames, callVars>>
    /\ UNCHANGED <<carVars, worldVars, lightVars, keyState, renderCalls, disposed,
                   hitCount, onHitArgs, loadState, released, listeners, passVars,
                   objectKind, updateVars, dustVars, hitCounterRef>>

\* the Logout button of the game-over overlay: engine.dispose()
Logout ==
    /\ gameOver
    /\ ~disposed
    /\ LET d == DisposeEffect(disposed, animationId, pendingFrames, listeners, released)
       IN  /\ disposed' = d.disposed
           /\ animationId' = d.animationId
           /\ pendingFrames' = d.pendingFrames
           /\ listeners' = d.listeners
           /\ released' = d.released
           /\ cancelled' = d.cancelled
    /\ running' = FALSE
    /\ recent' = Push(recent, "dispose")
    /\ UNCHANGED <<carVars, worldVars, lightVars, keyState, renderCalls, hitCount,
                   onHitArgs, loadState, passVars, objectKind, updateVars, dustVars,
                   pageVars>>

\* the Play Again button: the state is reset and the page reloaded, which
\* starts a new run on a new page
PlayAgain ==
    /\ gameOver
    /\ ~disposed
    /\ speed' = 0
    /\ steering' = 0
    /\ sceneBoxes' = <<>>
    /\ worldPos' = <<>>
    /\ treeContainer' = {}
    /\ opacity' = <<>>
    /\ visible' = <<>>
    /\ objectKind' = <<>>
    /\ lightsOn' = TRUE
    /\ heading' = <<1, 0, 0>>
    /\ keyState' = {}
    /\ animationId' = 0
    /\ pendingFrames' = {}
    /\ renderCalls' = 0
    /\ disposed' = FALSE
    /\ hitCount' = 0
    /\ onHitArgs' = <<>>
    /\ loadState' = "loading"
    /\ released' = [r \in Resources |-> 0]
    /\ listeners' = Listeners
    /\ running' = FALSE
    /\ recent' = <<>>
    /\ cancelled' = 0
    /\ dust' = NewDustSystem
    /\ dustSince' = [i \in Slots |-> 0]
    /\ dustBorn' = [i \in Slots |-> 0]
    /\ timeRemaining' = GAME_DURATION_SECONDS
    /\ gameOver' = FALSE
    /\ finalScore' = 0
    /\ hitCounterRef' = 0
    /\ savedScores' = <<>>
    /\ timerActive' = FALSE
    /\ UNCHANGED <<passVars, updateVars, dustDelta, dustUpdates>>

\* the loader settles some time after the constructor that called it, and
\* the same effect has then started the engine
GameLoadResolved == renderCalls > 0 /\ LoadResolved
GameLoadFailed   == renderCalls > 0 /\ LoadFailed

GameNext ==
    \/ GameMount
    \/ GameFrame
    \/ TimerTick
    \/ GameLoadResolved
    \/ GameLoadFailed
    \/ Logout
    \/ PlayAgain

SpecGame == GameInit /\ [][GameNext]_vars

-----------------------------------------------------------------------------
(* Specification SpecUpdate: one Car.update(delta) of the engine's car,    *)
(* from every combination of a speed and a steering value the car can have *)
(* and a key table, with every delta the engine's render can pass.         *)

\* speeds in 0.01: rest, one step and the limits of accelerating and braking
UpdateSpeeds == {-152, -4, 0, 4, 300}

\* steering values in 0.0001: straight, one step, and both limits
UpdateSteerings == {-maxSteering, 0, 8, maxSteering}

\* key tables: those of the kinematics, and opposite keys held together
UpdateKeyTables ==
    KeyTables \cup { {KeyA, KeyD}, {KeyW, KeyS}, {KeyLeft, KeyD},
                     {KeyLeft, KeyRight, KeyUp, KeyDown} }

\* clock readings since the previous tick, in 1/120 s; render caps them
UpdateElapsed == {0, 1, 2, 3, 5, 6, ClockCap, 20}

UpdateInit ==
    /\ speed \in UpdateSpeeds
    /\ steering \in UpdateSteerings
    /\ IdleWorld
    /\ IdleLights
    /\ animationId = 0
    /\ pendingFrames = {}
    /\ renderCalls = 0
    /\ disposed = FALSE
    /\ hitCount = 0
    /\ onHitArgs = <<>>
    /\ loadState = "loading"
    /\ released = [r \in Resources |-> 0]
    /\ listeners = Listeners
    /\ running = FALSE
    /\ recent = <<>>
    /\ cancelled = 0
    /\ keyState \in UpdateKeyTables
    /\ IdlePass
    /\ IdleUpdate
    /\ NewDust
    /\ IdlePage

\* update(delta), as render calls it
UpdateCall ==
    /\ phase = "input"
    /\ phase' = "done"
    /\ \E elapsed \in UpdateElapsed :
        LET delta == ClockDelta(elapsed)
            st == CarSteering(steering, keyState, delta)
            sp == CarSpeed(speed, steering, keyState, delta)
        IN  /\ carDelta' = delta
            /\ deltaFactor' = DeltaFactor(delta)
            /\ speedBefore' = speed
            /\ steeringBefore' = steering
            /\ steering' = st
            /\ speed' = sp
            /\ rotated' = PlanetRotates(sp, DeltaFactor(delta))
            /\ heading' \in (IF HeadingTurns(sp, st) THEN EngineHeadings ELSE {heading})
            /\ EngineDust(delta, sp)
    /\ UNCHANGED <<worldVars, lightsOn, engineVars, callVars, colBefore,
                   opacityBefore, colHits, objectKind, pageVars, updates,
                   tickLog, drawn>>

UpdateNext == UpdateCall

SpecUpdate == UpdateInit /\ [][UpdateNext]_vars

-----------------------------------------------------------------------------
(* Specification SpecReplay: a car without a dust emitter, at rest with    *)
(* straight wheels, updated frame after frame at 60 Hz while one key table *)
(* is held.                                                                *)

MaxFrames == 60

\* 1/60 s, in 1/120 s
FrameDelta == ClockCap \div 6

ReplayInit ==
    /\ speed = 0
    /\ steering = 0
    /\ IdleWorld
    /\ IdleLights
    /\ animationId = 0
    /\ pendingFrames = {}
    /\ renderCalls = 0
    /\ disposed = FALSE
    /\ hitCount = 0
    /\ onHitArgs = <<>>
    /\ loadState = "loading"
    /\ released = [r \in Resources |-> 0]
    /\ listeners = Listeners
    /\ running = FALSE
    /\ recent = <<>>
    /\ cancelled = 0
    /\ keyState \in KeyTables
    /\ IdlePass
    /\ IdleUpdate
    /\ NewDust
    /\ IdlePage

\* update(1 / 60)
ReplayUpdate ==
    /\ updates < MaxFrames
    /\ updates' = updates + 1
    /\ carDelta' = FrameDelta
    /\ deltaFactor' = DeltaFactor(FrameDelta)
    /\ speedBefore' = speed
    /\ steeringBefore' = steering
    /\ steering' = CarSteering(steering, keyState, FrameDelta)
    /\ speed' = CarSpeed(speed, steering, keyState, FrameDelta)
    /\ rotated' = PlanetRotates(speed', DeltaFactor(FrameDelta))
    /\ UNCHANGED <<worldVars, lightVars, engineVars, callVars, passVars, objectKind,
                   tickLog, drawn, dustVars, pageVars>>

ReplayNext == ReplayUpdate

SpecReplay == ReplayInit /\ [][ReplayNext]_vars

-----------------------------------------------------------------------------
(* Specification SpecEmit: the emission of the engine's dust system, which *)
(* has 260 slots, under the update calls Car.update makes: the delta is    *)
(* the capped clock delta and the speed is the car's.  Emission reads and  *)
(* writes the accumulator and the write cursor only, and those are what    *)
(* the dust record holds here; the 260 particles are left out.             *)

EngineDustCapacity == 260

MaxEmitUpdates == 5

\* clock deltas in 1/120 s: a repeated timer reading, a 60 Hz frame, a slow
\* frame, and a stall that the cap cuts to 0.1 s
EmitElapsed == {0, 2, 5, 30}

\* car speeds in 0.01: at rest, at and just over the threshold in both
\* directions, reversing at the limit, and at and over the forward limit
EmitSpeeds == {0, 20, -20, 21, -21, -152, 300, 302}

\* the accumulator and cursor after update(delta, ..., sp)
EmitStep(d, delta, sp) ==
    IF delta <= 0
    THEN d
    ELSE LET acc == Accumulate(d.emitAccumulator, delta, sp)
             emitCount == EmitCountOf(EngineDustCapacity, acc)
         IN  [nextIndex |-> (d.nextIndex + emitCount) % EngineDustCapacity,
              emitAccumulator |-> acc - emitCount * AccOne]

EmitInit ==
    /\ speed = 0
    /\ steering = 0
    /\ IdleWorld
    /\ IdleLights
    /\ NewEngine
    /\ IdlePass
    /\ IdleUpdate
    /\ dust = [nextIndex |-> 0, emitAccumulator |-> 0]
    /\ dustSince = [i \in Slots |-> 0]
    /\ dustBorn = [i \in Slots |-> 0]
    /\ dustDelta = 0
    /\ dustUpdates = 0
    /\ IdlePage

\* Car.update has set this.speed and calls this.dustEmitter.update
EmitUpdate ==
    /\ dustUpdates < MaxEmitUpdates
    /\ dustUpdates' = dustUpdates + 1
    /\ \E elapsed \in EmitElapsed, sp \in EmitSpeeds :
        /\ speed' = sp
        /\ dustDelta' = DustDelta(ClockDelta(elapsed))
        /\ dust' = EmitStep(dust, DustDelta(ClockDelta(elapsed)), sp)
    /\ UNCHANGED <<steering, worldVars, lightVars, engineVars, callVars, passVars,
                   objectKind, updateVars, dustSince, dustBorn, pageVars>>

EmitNext == EmitUpdate

SpecEmit == EmitInit /\ [][EmitNext]_vars

-----------------------------------------------------------------------------
(* Specification SpecTick: one call of render on a loaded, running engine, *)
(* statement by statement: the car's kinematics, its rotation of the       *)
(* planet group and its dust update, then the visibility pass, the         *)
(* collision pass and renderer.render.                                     *)

\* a tick that draws the scene before the collision pass
TickOrderDrawFirst ==
    <<"update", "rotate", "dust", "visibility", "render", "collision">>

\* the statements of render, and of the Car.update it calls, in source order
TickOrder ==
    <<"update", "rotate", "dust", "visibility", "collision", "render">>

TickSpeeds == {0, 4, 300}
TickSteerings == {0, 8}
TickKeyTables == { {}, {KeyUp}, {KeyRight, KeyUp} }

TickInit ==
    /\ speed \in TickSpeeds
    /\ steering \in TickSteerings
    /\ sceneBoxes = [i \in 1 .. TreeCount |-> i]
    /\ worldPos \in [1 .. TreeCount -> Places]
    /\ treeContainer = 1 .. TreeCount
    /\ opacity = [i \in 1 .. TreeCount |-> 0]
    /\ visible = [i \in 1 .. TreeCount |-> FALSE]
    /\ objectKind = [i \in 1 .. TreeCount |-> "tree"]
    /\ IdleLights
    /\ keyState \in TickKeyTables
    /\ animationId = 1
    /\ pendingFrames = {1}
    /\ renderCalls = 1
    /\ disposed = FALSE
    /\ hitCount = 0
    /\ onHitArgs = <<>>
    /\ loadState = "loaded"
    /\ released = [r \in Resources |-> 0]
    /\ listeners = Listeners
    /\ running = TRUE
    /\ recent = <<>>
    /\ cancelled = 0
    /\ IdlePass
    /\ IdleUpdate
    /\ NewDust
    /\ IdlePage

\* the statement called name is the next one of the tick, and runs
Runs(name) ==
    /\ phase = "input"
    /\ Len(tickLog) < Len(TickOrder)
    /\ TickOrder[Len(tickLog) + 1] = name
    /\ tickLog' = Append(tickLog, name)
    /\ phase' = IF Len(tickLog) + 1 = Len(TickOrder) THEN "done" ELSE "input"

\* render's first statements and Car.update down to the heading: the next
\* frame is requested, the delta read, steering, speed and angle set
TickUpdate ==
    /\ Runs("update")
    /\ renderCalls' = renderCalls + 1
    /\ animationId' = renderCalls + 1
    /\ pendingFrames' = (pendingFrames \ {animationId}) \cup {renderCalls + 1}
    /\ \E elapsed \in Elapsed :
        LET delta == ClockDelta(elapsed)
        IN  /\ carDelta' = delta
            /\ deltaFactor' = DeltaFactor(delta)
            /\ speedBefore' = speed
            /\ steeringBefore' = steering
            /\ steering' = CarSteering(steering, keyState, delta)
            /\ speed' = CarSpeed(speed, steering, keyState, delta)
    /\ heading' \in (IF HeadingTurns(speed', steering') THEN EngineHeadings ELSE {heading})
    /\ UNCHANGED <<worldVars, lightsOn, keyState, disposed, hitCount, onHitArgs,
                   loadState, released, listeners, callVars, colBefore, opacityBefore,
                   colHits, objectKind, rotated, updates, drawn, dustVars, pageVars>>

\* Car.update: planetGroup.rotateOnWorldAxis, when the rotation amount is
\* large enough, carries every obstacle to another place
TickRotate ==
    /\ Runs("rotate")
    /\ rotated' = PlanetRotates(speed, deltaFactor)
    /\ worldPos' \in (IF PlanetRotates(speed, deltaFactor)
                      THEN [DOMAIN worldPos -> Places] ELSE {worldPos})
    /\ UNCHANGED <<carVars, sceneBoxes, treeContainer, opacity, visible, lightVars,
                   engineVars, callVars, colBefore, opacityBefore, colHits, objectKind,
                   carDelta, deltaFactor, speedBefore, steeringBefore, updates, drawn,
                   dustVars, pageVars>>

\* Car.update: this.dustEmitter.update(delta, ..., this.speed)
TickDust ==
    /\ Runs("dust")
    /\ EngineDust(carDelta, speed)
    /\ UNCHANGED <<carVars, worldVars, lightVars, engineVars, callVars, colBefore,
                   opacityBefore, colHits, objectKind, carDelta, deltaFactor, rotated,
                   speedBefore, steeringBefore, updates, drawn, pageVars>>

\* updateObjectVisibility(this.car, this.sceneBoxes)
TickVisibility ==
    /\ Runs("visibility")
    /\ LET v == VisibilityPass(CarLightCount, lightsOn, CarPosition, heading,
                               sceneBoxes, worldPos, opacity, visible)
       IN  /\ opacity' = v.opacity
           /\ visible' = v.visible
    /\ opacityBefore' = opacity
    /\ UNCHANGED <<carVars, sceneBoxes, worldPos, treeContainer, lightVars,
                   engineVars, callVars, colBefore, colHits, objectKind, carDelta,
                   deltaFactor, rotated, speedBefore, steeringBefore, updates, drawn,
                   dustVars, pageVars>>

\* checkCollisions(this.car, this.sceneBoxes, () => this.registerHit())
TickCollide ==
    /\ Runs("collision")
    /\ LET c == CheckCollisions(CarPosition, worldPos, sceneBoxes, treeContainer)
           r == RegisterHits(Len(c.hits), hitCount, onHitArgs)
       IN  /\ sceneBoxes' = c.boxes
           /\ treeContainer' = c.container
           /\ colHits' = c.hits
           /\ hitCount' = r.hitCount
           /\ onHitArgs' = r.onHitArgs
    /\ colBefore' = sceneBoxes
    /\ UNCHANGED <<carVars, worldPos, opacity, visible, lightVars, keyState,
                   animationId, pendingFrames, renderCalls, disposed, loadState,
                   released, listeners, callVars, opacityBefore, objectKind, carDelta,
                   deltaFactor, rotated, speedBefore, steeringBefore, updates, drawn,
                   dustVars, pageVars>>

\* this.renderer.render(this.scene, this.camera)
TickDraw ==
    /\ Runs("render")
    /\ drawn' = sceneBoxes
    /\ UNCHANGED <<carVars, worldVars, lightVars, engineVars, callVars, colBefore,
                   opacityBefore, colHits, objectKind, carDelta, deltaFactor, rotated,
                   speedBefore, steeringBefore, updates, dustVars, pageVars>>

TickNext ==
    \/ TickUpdate
    \/ TickRotate
    \/ TickDust
    \/ TickVisibility
    \/ TickCollide
    \/ TickDraw

SpecTick == TickInit /\ [][TickNext]_vars

-----------------------------------------------------------------------------
(* Claims                                                                  *)

Last(seq) == seq[Len(seq)]

engineState == <<carVars, worldVars, lightVars, engineVars>>

\* C1: after every Car.update the speed lies in [-maxSpeed / 2, maxSpeed].
\* The accelerate and brake branches test the limit before adding a whole
\* step, so the speed steps over it.
C1_SpeedWithinLimits == 2 * speed >= -maxSpeed /\ speed <= maxSpeed

\* C2: whatever keys are held, for however long, |steering| never exceeds
\* maxSteering (0.01).
C2_SteeringBounded == Abs(steering) <= maxSteering

\* the turn key was held until the clamp took effect
C2_SteeringAtLimit == steering = maxSteering /\ speed # 0

\* the obstacle is closer to the car than the collision threshold
Near(b) ==
    LengthSq(Sub(worldPos[b], CarPosition)) < COLLISION_THRESHOLD * COLLISION_THRESHOLD
Far(b) == ~Near(b)

\* C3: one checkCollisions pass removes exactly the obstacles nearer than 28,
\* calls onHit exactly once for each of them, and leaves the others in the
\* list in their original order.
C3_CollisionPassExact ==
    phase = "done" =>
        /\ sceneBoxes = SelectSeq(colBefore, Far)
        /\ {colHits[i] : i \in DOMAIN colHits} = {b \in ListedSet(colBefore) : Near(b)}
        /\ Len(colHits) = Cardinality({b \in ListedSet(colBefore) : Near(b)})
        /\ treeContainer = ListedSet(sceneBoxes)

\* a pass with two simultaneous hits and a survivor between or beside them
C3_TwoHitsOneSurvivor ==
    /\ phase = "done"
    /\ Len(colHits) >= 2
    /\ Len(sceneBoxes) >= 1
    /\ Len(colBefore) = 3

\* C4: the hit count never decreases, a tick adds exactly one per obstacle
\* its collision pass removes, and the host's onHit calls carry 1, 2, 3, ...
C4_HitCountSequence ==
    /\ [](onHitArgs = [i \in 1 .. hitCount |-> i])
    /\ [][/\ hitCount' >= hitCount
          /\ loadState' = loadState =>
                hitCount' - hitCount = Len(sceneBoxes) - Len(sceneBoxes')]_vars

\* two obstacles were hit
C4_TwoHits == hitCount = 2 /\ Len(onHitArgs) = 2

\* C5: however often dispose() is called, no GPU resource is released more
\* than once, and a dispose() on a disposed engine changes nothing.
C5_DisposeOnce ==
    /\ [](\A r \in Resources : released[r] <= 1)
    /\ [][disposed /\ recent' = Push(recent, "dispose") =>
            UNCHANGED engineState]_vars

\* stop(), dispose(), dispose() were called in a row on a started engine
C5_StopDisposeDispose ==
    /\ recent = <<"stop", "dispose", "dispose">>
    /\ renderCalls > 0
    /\ released["renderer"] = 1

\* C6: a stop() straight after a stop() cancels nothing and changes no field.
C6_StopIdempotent ==
    [][recent # <<>> /\ Last(recent) = "stop" /\ recent' = Push(recent, "stop") =>
            cancelled' = 0 /\ UNCHANGED engineState]_vars

\* stop() was called twice in a row on a started engine
C6_StoppedTwice ==
    /\ Len(recent) >= 2
    /\ recent[Len(recent) - 1] = "stop"
    /\ Last(recent) = "stop"
    /\ renderCalls > 0
    /\ ~disposed

\* C7: once stop() has returned on a live engine, no tick runs until start()
\* is called again: a tick of a stopped engine is the one start() makes.
C7_NoTickWhileStopped ==
    [][~running /\ ~disposed /\ renderCalls' # renderCalls => running']_vars

\* C8: after dispose() every GPU resource of the dust system, the sky dome
\* and the planet surface has been released exactly once, and no listener
\* is left registered.
C8_EverythingReleased ==
    disposed =>
        /\ \A r \in DustResources \cup SkyResources \cup PlanetResources :
              released[r] = 1
        /\ listeners = {}

\* C9: with the headlights off, a visibility pass leaves every listed
\* obstacle with opacity 0 and invisible, wherever it is.
C9_DarkWhenLightsOff ==
    phase = "done" /\ ~lightsOn =>
        \A b \in ListedSet(sceneBoxes) : opacity[b] = 0 /\ ~visible[b]

\* the obstacle sits on the axis the car faces, ahead of it
OnForwardAxis(b) ==
    LET o == Sub(worldPos[b], CarPosition)
    IN  /\ o[2] * heading[3] - o[3] * heading[2] = 0
        /\ o[3] * heading[1] - o[1] * heading[3] = 0
        /\ o[1] * heading[2] - o[2] * heading[1] = 0
        /\ Dot(o, heading) > 0

InsideRange(b) ==
    LengthSq(Sub(worldPos[b], CarPosition)) < HEADLIGHT_RANGE * HEADLIGHT_RANGE

\* an obstacle that an earlier pass had lit, 500 ahead on the axis, went dark
C9_LitObstacleWentDark ==
    /\ phase = "done"
    /\ ~lightsOn
    /\ \E b \in ListedSet(sceneBoxes) :
        /\ opacityBefore[b] = 100
        /\ OnForwardAxis(b)
        /\ LengthSq(Sub(worldPos[b], CarPosition)) = 500 * 500
        /\ opacity[b] = 0
        /\ ~visible[b]

\* C10: with the headlights on, an obstacle on the forward axis at a distance
\* d, 0 < d < headlightRange, gets an intensity above 0 and is visible.
C10_AxisObstacleLit ==
    phase = "done" /\ lightsOn =>
        \A b \in ListedSet(sceneBoxes) :
            OnForwardAxis(b) /\ InsideRange(b) => opacity[b] > 0 /\ visible[b]

\* a dark obstacle 500 ahead on the axis became visible, and one 999 ahead
C10_AxisObstaclesVisible ==
    /\ phase = "done"
    /\ lightsOn
    /\ \E b \in ListedSet(sceneBoxes) :
        /\ opacityBefore[b] = 0
        /\ OnForwardAxis(b)
        /\ LengthSq(Sub(worldPos[b], CarPosition)) = 500 * 500
        /\ visible[b]
    /\ \E b \in ListedSet(sceneBoxes) :
        /\ OnForwardAxis(b)
        /\ LengthSq(Sub(worldPos[b], CarPosition)) = 999 * 999
        /\ visible[b]

AtRange(b) ==
    LengthSq(Sub(worldPos[b], CarPosition)) = HEADLIGHT_RANGE * HEADLIGHT_RANGE

\* C11: with the headlights on, an obstacle exactly at distance
\* headlightRange gets intensity 0 and is invisible, even inside the cone.
\* The code's test is distance <= HEADLIGHT_RANGE, which lets it in.
C11_AtRangeExcluded ==
    phase = "done" /\ lightsOn =>
        \A b \in ListedSet(sceneBoxes) : AtRange(b) => opacity[b] = 0 /\ ~visible[b]

\* C12: an update with delta <= 0 leaves every array of the dust system, its
\* accumulator and its write cursor as they were, at any speed.
C12_NonPositiveDeltaNoChange ==
    [][dustUpdates' = dustUpdates + 1 /\ dustDelta' <= 0 => dust' = dust]_vars

\* updates with a zero and with a negative delta were made on a system that
\* held a live particle and a partly filled accumulator
C12_IdleCallOnLiveSystem ==
    /\ dustUpdates >= 2
    /\ dustDelta < 0
    /\ dust.emitAccumulator > 0
    /\ \E i \in Slots : dust.lifetimes[i] > 0

\* C13: a particle that is not overwritten is active exactly as long as the
\* deltas applied since its spawn (the spawning update's included) sum to
\* less than its lifetime, and when it is inactive its alpha is 0.  The age
\* is kept in a Float32Array, so the stored sum can fall short of the
\* lifetime when the deltas themselves reach it.
C13_ExpiresWhenDeltasReachLifetime ==
    \A i \in Slots :
        dustBorn[i] > 0 =>
            /\ dust.lifetimes[i] > 0 <=> dustSince[i] < dustBorn[i]
            /\ dust.lifetimes[i] = 0 => dust.alphas[i] = 0

\* C14: every slot, active, never used or expired, has 0 <= age <= lifetime.
\* An expiring slot gets lifetime 0 and keeps the age that ended it.
C14_AgeWithinLifetime ==
    \A i \in Slots : 0 <= dust.ages[i] /\ dust.ages[i] <= dust.lifetimes[i]

\* C15: with only the accelerate key held from rest, the speed climbs to
\* maxSpeed and never exceeds it.  The last step before the limit is a whole
\* step, whatever is left to go.
C15_AccelerateNeverExceeds == keyState = {KeyUp} => speed <= maxSpeed

KindsListed == {objectKind[b] : b \in ListedSet(sceneBoxes)}

\* C16: the load ends in one of two ways and never in an error: with exactly
\* treeCount trees in the list, or with exactly fallbackCount boxes; the list
\* never mixes the two, and is not empty when the loader completes.
C16_TreesOrFallbackBoxes ==
    /\ [](loadState \in {"loading", "loaded", "failed"} /\ Cardinality(KindsListed) <= 1)
    /\ [][loadState = "loading" /\ loadState' # "loading" =>
            /\ Len(sceneBoxes') > 0
            /\ \/ /\ loadState' = "loaded"
                  /\ Len(sceneBoxes') = TreeCount
                  /\ \A b \in ListedSet(sceneBoxes') : objectKind'[b] = "tree"
               \/ /\ loadState' = "failed"
                  /\ Len(sceneBoxes') = FallbackCount
                  /\ \A b \in ListedSet(sceneBoxes') : objectKind'[b] = "box"]_vars

\* the load failed while the loop was running, and the fallback boxes are
\* in the list
C16_FellBackToBoxes ==
    /\ loadState = "failed"
    /\ renderCalls > 0
    /\ hitCount = 0
    /\ Len(sceneBoxes) = FallbackCount
    /\ KindsListed = {"box"}

\* C17: as long as the load has not resolved, the obstacle list is empty
\* whatever ticks run: nothing is lit, nothing is hit, onHit is not called
\* and the hit count is 0.
C17_EmptyUntilLoaded ==
    loadState = "loading" =>
        /\ sceneBoxes = <<>>
        /\ treeContainer = {}
        /\ DOMAIN opacity = {}
        /\ hitCount = 0
        /\ onHitArgs = <<>>

\* two ticks ran, with the car moving, before the load resolved
C17_TicksBeforeLoad ==
    /\ loadState = "loading"
    /\ renderCalls >= 2
    /\ speed > 0
C19_DeltaFactorIsScaledDelta ==
    phase = "done" => deltaFactor = Min(carDelta, CapDeltaFactor)

\* C20: a car at rest with no key held is still at rest after one update,
\* whatever the delta and the steering, and that update does not turn the
\* planet group.
C20_RestStaysAtRest ==
    phase = "done" /\ speedBefore = 0 /\ keyState = {} => speed = 0 /\ ~rotated

\* an update at the capped delta of a resting car whose wheels are turned
C20_RestingCarUpdated ==
    /\ phase = "done"
    /\ speedBefore = 0
    /\ keyState = {}
    /\ steering # 0
    /\ carDelta = ClockCap
    /\ speed = 0

\* C21: from rest with straight wheels, 60 updates of 1/60 s with only the
\* accelerate key held leave the steering at 0, so the damping factor is 1
\* in every frame, and bring the speed to 60 * 0.04 = 2.4, below the limit.
C21_SixtyFramesOfThrottle ==
    updates = 60 /\ keyState = {KeyUp} =>
        /\ deltaFactor = UnitDeltaFactor
        /\ steering = 0
        /\ speed = Min(maxSpeed, 60 * Acceleration(UnitDeltaFactor))
        /\ 100 * speed = 240 * SpeedScale

\* the sixtieth frame of throttle has run
C21_SixtiethFrame ==
    /\ updates = 60
    /\ keyState = {KeyUp}
    /\ speedBefore = 236
    /\ speed = 240

\* C22: on an engine that has not been disposed, whatever start() and
\* stop() calls were made, at most one animation-frame callback is pending.
\* start() on a running engine requests a second one.
C22_AtMostOnePending ==
    ~disposed => Cardinality(pendingFrames) <= 1

\* C30: once dispose() has been called no tick begins again, whatever
\* start() and stop() calls came before or come after.  dispose() cancels
\* only the handle in animationId, so the callback an earlier second start()
\* left pending still runs, and reschedules itself.
C30_NoTickAfterDispose ==
    [][disposed => renderCalls' = renderCalls]_vars

\* the obstacles created so far that are no longer in the list
Removed == (DOMAIN objectKind) \ ListedSet(sceneBoxes)

\* C26: an obstacle that a collision removed is never in the list again,
\* and the onHit calls made over the whole run are one per removed obstacle,
\* so no obstacle causes two.
C26_HitAtMostOnce ==
    /\ [](/\ Len(onHitArgs) = Cardinality(Removed)
          /\ Cardinality(ListedSet(sceneBoxes)) = Len(sceneBoxes))
    /\ [][\A b \in Removed : b \notin ListedSet(sceneBoxes')]_vars

\* one obstacle was hit and removed, the other is still ahead, and the
\* moving car has been through all its ticks
C26_RemovedAndStillTicking ==
    /\ Cardinality(Removed) = 1
    /\ Len(sceneBoxes) = 1
    /\ speed > 0
    /\ renderCalls = MaxRenders

\* C29: between ticks, the hit count plus the length of the obstacle list is
\* the number of obstacles the loader has created, however the completion
\* of the load interleaves with the ticks.
C29_HitsPlusListedIsCreated ==
    hitCount + Len(sceneBoxes) = Len(objectKind)

\* after the load completed, ticks have hit some obstacles and left others
C29_SomeHitSomeListed ==
    /\ loadState = "loaded"
    /\ hitCount >= 1
    /\ Len(sceneBoxes) >= 1
    /\ renderCalls >= 2

\* C27: after a visibility pass of a car with headlights, every listed
\* obstacle has the intensity computed for it as opacity, between 0 and 1,
\* and is visible exactly when that intensity exceeds 0.02.
C27_OpacityIsClampedIntensity ==
    phase = "done" =>
        \A b \in ListedSet(sceneBoxes) :
            /\ opacity[b] = Intensity(lightsOn, CarPosition, heading, worldPos[b])
            /\ 0 <= opacity[b]
            /\ opacity[b] <= 100
            /\ visible[b] <=> opacity[b] > 2

\* one obstacle right in front of the lamps, whose intensity the clamp cut
\* to 1, and one outside the cone that an earlier pass had lit and this one
\* hid
C27_ClampedAndHidden ==
    /\ phase = "done"
    /\ lightsOn
    /\ \E b \in ListedSet(sceneBoxes) :
        /\ OnForwardAxis(b)
        /\ LengthSq(Sub(worldPos[b], CarPosition)) < 100
        /\ opacityBefore[b] = 0
        /\ opacity[b] = 100
        /\ visible[b]
    /\ \E b \in ListedSet(sceneBoxes) :
        /\ Dot(Sub(worldPos[b], CarPosition), heading) < 0
        /\ opacityBefore[b] = 100
        /\ opacity[b] = 0
        /\ ~visible[b]

TurnRightHeld == Held(keyState, KeyRight) \/ Held(keyState, KeyD)
TurnLeftHeld == Held(keyState, KeyLeft) \/ Held(keyState, KeyA)
AccelerateHeld == Held(keyState, KeyUp) \/ Held(keyState, KeyW)
BrakeHeld == Held(keyState, KeyDown) \/ Held(keyState, KeyS)

\* C25: one update applies exactly one steering branch and one speed branch:
\* turn-right whenever a turn-right key is held, also with turn-left held;
\* turn-left when only a turn-left key is; the decay when neither is; and
\* likewise accelerate before brake before the decay, followed by the
\* steering damping.
C25_OneBranchEach ==
    phase = "done" =>
        LET power == SteerPower(deltaFactor)
            step == Acceleration(deltaFactor)
            undamped ==
                IF AccelerateHeld
                THEN speedBefore + (IF speedBefore < maxSpeed THEN step ELSE 0)
                ELSE IF BrakeHeld
                THEN speedBefore - (IF 2 * speedBefore > -maxSpeed THEN step ELSE 0)
                ELSE RoundDiv(speedBefore * SpeedDecayPow[deltaFactor], FactorOne)
        IN  /\ TurnRightHeld =>
                steering = Min(steeringBefore + power, maxSteering)
            /\ ~TurnRightHeld /\ TurnLeftHeld =>
                steering = Max(steeringBefore - power, -maxSteering)
            /\ ~TurnRightHeld /\ ~TurnLeftHeld =>
                steering = RoundDiv(steeringBefore * SteerDecayPow[deltaFactor], FactorOne)
            /\ speed = SteeringDamp(undamped, steering)

\* all four arrow keys were held through an update from rest: the wheels
\* turned right and the car moved forward
C25_OppositeKeysHeld ==
    /\ phase = "done"
    /\ keyState = {KeyLeft, KeyRight, KeyUp, KeyDown}
    /\ steeringBefore = 0
    /\ steering = SteerPower(deltaFactor)
    /\ speedBefore = 0
    /\ speed > 0

\* C24: an update with delta > 0, at some speed, spawns the integer part n
\* of the accumulator as increased or decayed by this frame: it leaves the
\* accumulator lower by exactly n and the write cursor n further, modulo
\* the capacity.  The code spawns min(capacity, n), and particles beyond the
\* capacity stay in the accumulator.
C24_SpawnsIntegerPart ==
    [][dustUpdates' = dustUpdates + 1 /\ dustDelta' > 0 =>
        \E sp \in DustSpeeds :
            LET acc == Accumulate(dust.emitAccumulator, dustDelta', sp)
                n == acc \div AccOne
            IN  /\ dust'.emitAccumulator = acc - n * AccOne
                /\ dust'.nextIndex = (dust.nextIndex + n) % DustCapacity
                /\ dust'.nextIndex \in Slots]_vars

\* C28: with the engine's deltas, at most 0.1 s, the accumulator is below 1
\* whenever an update starts, and an update made while |speed| <= 0.2
\* spawns no particle: the write cursor stays where it was.
C28_NoDustWhenSlow ==
    /\ [](dust.emitAccumulator < AccOne)
    /\ [][dustUpdates' = dustUpdates + 1 /\ Abs(speed') <= 20 =>
            dust'.nextIndex = dust.nextIndex]_vars

\* the car, having spawned seven particles in one frame at speed, is at the
\* threshold speed with dust still in the accumulator
C28_SlowAfterFast ==
    /\ dustUpdates >= 2
    /\ Abs(speed) = 20
    /\ dustDelta > 0
    /\ dust.nextIndex >= 7
    /\ dust.emitAccumulator > 0

\* C23: within a tick the subsystems run in the order vehicle update (with
\* the planet rotation and then the dust update inside it), visibility
\* pass, collision pass, render; what the tick draws is the obstacle list
\* its own collision pass left, with no obstacle inside the collision
\* threshold, lit as the visibility pass found them where the rotation of
\* this tick put them.
C23_TickOrder ==
    /\ tickLog = SubSeq(<<"update", "rotate", "dust", "visibility", "collision",
                          "render">>, 1, Len(tickLog))
    /\ phase = "done" =>
        /\ Len(tickLog) = 6
        /\ drawn = sceneBoxes
        /\ ListedSet(drawn) = ListedSet(colBefore) \ ListedSet(colHits)
        /\ \A b \in ListedSet(drawn) :
            /\ Far(b)
            /\ opacity[b] = Intensity(lightsOn, CarPosition, heading, worldPos[b])

\* a tick in which the planet turned, the collision pass removed an
\* obstacle that the visibility pass had seen, and the other was drawn
C23_HitBeforeDraw ==
    /\ phase = "done"
    /\ rotated
    /\ Len(colHits) = 1
    /\ Len(drawn) = 1
    /\ Len(opacityBefore) = 2

====
